---- MODULE Spec2Model ----
(***************************************************************************)
(* Model of the taskdemo command-line tool (main.go).  The tool drives a   *)
(* remote platform service: bootstrap provisions a user, an organization,  *)
(* two buckets and four authorizations; write, read-in, read-out,          *)
(* downsample-once and create-task pick an authorization by a linear scan  *)
(* and issue a request with its token; destroy deletes the user and the    *)
(* organization.                                                           *)
(***************************************************************************)
EXTENDS Integers, Sequences, FiniteSets, TLC

\* Bounds of the model.
MaxAuths == 2
MaxPerms == 3
MaxWrites == 3
MaxBootstraps == 1

VARIABLES
  svcUser,     \* ID of the user named userName() at the service, or InvalidID
  svcOrg,      \* ID of the organization named orgName(), or InvalidID
  svcBuckets,  \* buckets at the service: records [Name, Org, ID]
  svcAuths,    \* authorizations at the service: sequence of [Token, UserID, Permissions]
  gen,         \* number of bootstrap runs so far (the service hands out fresh IDs)
  cmd,         \* flag.Arg(1) of the running process, "none" when no process runs
  pc,          \* position of the running process
  ids,         \* the process's local IDs: [user, org, bIn, bOut]
  as,          \* the process's local slice returned by FindAuthorizations
  idx,         \* position of the range loop over as (1-based)
  selected,    \* index in as of writeAuth/readAuth/..., 0 while nil
  examined,    \* indices of as whose Allowed conditions were evaluated
  i,           \* loop counter of write
  requests,    \* requests issued by the process: sequence of [Cmd, Token, Body]
  created,     \* what bootstrap has created in this run, in order
  lastStatus,  \* outcome of the process's last request, "none" before the first
  last,        \* [Cmd, As, Req, Selected] of the latest finished scan, or NoScan
  prev         \* last, when the previous process ran the same command

vars == <<svcUser, svcOrg, svcBuckets, svcAuths, gen, cmd, pc, ids, as, idx,
          selected, examined, i, requests, created, lastStatus, last, prev>>

svcVars == <<svcUser, svcOrg, svcBuckets, svcAuths>>
scanVars == <<as, idx, selected, examined>>

----------------------------------------------------------------------------
\* IDs and names

InvalidID == <<"invalid", 0>>
UserID(g) == <<"user", g>>
OrgID(g) == <<"org", g>>
BucketID(name, g) == <<name, g>>

bucketInName == "demo-bucket-in"
bucketOutName == "demo-bucket-out"

NoIDs == [user |-> InvalidID, org |-> InvalidID, bIn |-> InvalidID, bOut |-> InvalidID]
NoScan == [Cmd |-> "none", As |-> <<>>, Req |-> <<>>, Selected |-> 0]

----------------------------------------------------------------------------
\* Permissions

ReadBucketPermission(id) == [Action |-> "read", Resource |-> <<"bucket", id>>]
WriteBucketPermission(id) == [Action |-> "write", Resource |-> <<"bucket", id>>]
CreateTaskPermission(oid) == [Action |-> "create", Resource |-> <<"task", oid>>]

\* The platform's per-permission check: the same action on the same resource.
allows(held, requested) ==
  /\ held.Action = requested.Action
  /\ held.Resource = requested.Resource

\* a.Allowed(p): some granted permission allows p.
Allowed(a, p) ==
  \E k \in 1..Len(a.Permissions) : allows(a.Permissions[k], p)

\* The permissions each command's if-condition asks for, in && order.
Required(c, l) ==
  CASE c = "write" -> <<WriteBucketPermission(l.bIn)>>
    [] c = "read-in" -> <<ReadBucketPermission(l.bIn)>>
    [] c = "read-out" -> <<ReadBucketPermission(l.bOut)>>
    [] c = "downsample-once" ->
         <<ReadBucketPermission(l.bIn), WriteBucketPermission(l.bOut)>>
    [] c = "create-task" ->
         <<ReadBucketPermission(l.bIn), WriteBucketPermission(l.bOut),
           CreateTaskPermission(l.org)>>
    [] OTHER -> <<>>

\* Variant of Satisfies: the Allowed calls joined by || instead of &&.
SatisfiesAny(a, req) ==
  \E k \in 1..Len(req) : Allowed(a, req[k])

\* The if-condition of the selection loops: a conjunction of Allowed calls.
Satisfies(a, req) ==
  \A k \in 1..Len(req) : Allowed(a, req[k])

ScanCommands == {"write", "read-in", "read-out", "downsample-once", "create-task"}
QueryCommands == {"read-in", "read-out", "downsample-once"}

----------------------------------------------------------------------------
\* The service's answers

Token(g, k) == <<"token", g, k>>

\* buckets.FindBucket by bucket name and organization name.
FindBucket(name) ==
  IF svcOrg # InvalidID /\ \E b \in svcBuckets : b.Name = name /\ b.Org = svcOrg
  THEN (CHOOSE b \in svcBuckets : b.Name = name /\ b.Org = svcOrg).ID
  ELSE InvalidID

\* The authorizations of user uid, in the order the service stores them.
AuthorizationsOf(uid) ==
  SelectSeq(svcAuths, LAMBDA a : a.UserID = uid)

Orderings(s) ==
  { [k \in 1..Len(s) |-> s[f[k]]] :
      f \in { g \in [1..Len(s) -> 1..Len(s)] :
                \A x, y \in 1..Len(s) : x # y => g[x] # g[y] } }

----------------------------------------------------------------------------
\* Process start and exit

ResetLocals ==
  /\ ids' = NoIDs
  /\ as' = <<>>
  /\ idx' = 1
  /\ selected' = 0
  /\ examined' = {}
  /\ i' = 0
  /\ requests' = <<>>
  /\ created' = <<>>
  /\ lastStatus' = "none"

\* main: dispatch on flag.Arg(1) for the commands that select an authorization.
Start(c) ==
  /\ pc = "idle"
  /\ c \in ScanCommands
  /\ cmd' = c
  /\ pc' = "resolve"
  /\ ResetLocals
  /\ prev' = IF last.Cmd = c THEN last ELSE NoScan
  /\ last' = NoScan
  /\ UNCHANGED <<svcVars, gen>>

\* os.Exit(0) at the end of main, or the exit of log.Fatalf.
Exit ==
  /\ pc \in {"done", "fatal"}
  /\ pc' = "idle"
  /\ cmd' = "none"
  /\ ResetLocals
  /\ prev' = NoScan
  /\ UNCHANGED <<svcVars, gen, last>>

----------------------------------------------------------------------------
\* write, readOnce, downsampleOnce, createTask

\* mustOrgID, mustBucketID, mustUserID at the head of each command.
Resolve ==
  /\ pc = "resolve"
  /\ \E ok \in BOOLEAN :
       LET needOrg == cmd # "write"
           needIn == cmd \in {"write", "read-in", "downsample-once", "create-task"}
           needOut == cmd \in {"read-out", "downsample-once", "create-task"}
           l == [user |-> svcUser,
                 org |-> IF needOrg THEN svcOrg ELSE InvalidID,
                 bIn |-> IF needIn THEN FindBucket(bucketInName) ELSE InvalidID,
                 bOut |-> IF needOut THEN FindBucket(bucketOutName) ELSE InvalidID]
           found == /\ ok
                    /\ l.user # InvalidID
                    /\ needOrg => l.org # InvalidID
                    /\ needIn => l.bIn # InvalidID
                    /\ needOut => l.bOut # InvalidID
       IN IF found
          THEN /\ ids' = l
               /\ pc' = "find"
          ELSE /\ pc' = "fatal"
               /\ UNCHANGED ids
  /\ UNCHANGED <<svcVars, gen, cmd, scanVars, i, requests, created,
                 lastStatus, last, prev>>

\* auths.FindAuthorizations filtered by the user's ID.
FindAuthorizations(anyOrder) ==
  /\ pc = "find"
  /\ \E ok \in BOOLEAN :
       IF ok
       THEN /\ as' \in (IF anyOrder
                         THEN Orderings(AuthorizationsOf(ids.user))
                         ELSE {AuthorizationsOf(ids.user)})
            /\ pc' = "scan"
       ELSE /\ pc' = "fatal"
            /\ UNCHANGED as
  /\ UNCHANGED <<svcVars, gen, cmd, ids, idx, selected, examined, i,
                 requests, created, lastStatus, last, prev>>

\* Variant of ScanStep: the break is missing, so the loop runs on after a match.
ScanStepNoBreak ==
  /\ pc = "scan"
  /\ IF idx > Len(as)
     THEN /\ pc' = "check"
          /\ UNCHANGED <<idx, selected, examined>>
     ELSE /\ examined' = examined \cup {idx}
          /\ selected' = IF Satisfies(as[idx], Required(cmd, ids))
                         THEN idx ELSE selected
          /\ idx' = idx + 1
          /\ UNCHANGED pc
  /\ UNCHANGED <<svcVars, gen, cmd, ids, as, i, requests, created,
                 lastStatus, last, prev>>

\* Variant of ScanStep: the assignment x = a stands before the if.
ScanStepAssignFirst ==
  /\ pc = "scan"
  /\ IF idx > Len(as)
     THEN /\ pc' = "check"
          /\ UNCHANGED <<idx, selected, examined>>
     ELSE /\ examined' = examined \cup {idx}
          /\ selected' = idx
          /\ IF Satisfies(as[idx], Required(cmd, ids))
             THEN /\ pc' = "check"
                  /\ UNCHANGED idx
             ELSE /\ idx' = idx + 1
                  /\ UNCHANGED pc
  /\ UNCHANGED <<svcVars, gen, cmd, ids, as, i, requests, created,
                 lastStatus, last, prev>>

\* Variant of ScanStep: an entry that does not match is removed from as.
ScanStepConsume ==
  /\ pc = "scan"
  /\ IF idx > Len(as)
     THEN /\ pc' = "check"
          /\ UNCHANGED <<as, idx, selected, examined>>
     ELSE /\ examined' = examined \cup {idx}
          /\ IF Satisfies(as[idx], Required(cmd, ids))
             THEN /\ selected' = idx
                  /\ pc' = "check"
                  /\ UNCHANGED <<as, idx>>
             ELSE /\ as' = SubSeq(as, 1, idx - 1) \o SubSeq(as, idx + 1, Len(as))
                  /\ UNCHANGED <<idx, selected, pc>>
  /\ UNCHANGED <<svcVars, gen, cmd, ids, i, requests, created,
                 lastStatus, last, prev>>

\* One iteration of "for _, a := range as { if a.Allowed(...) { x = a; break } }".
ScanStep ==
  /\ pc = "scan"
  /\ IF idx > Len(as)
     THEN /\ pc' = "check"
          /\ UNCHANGED <<idx, selected, examined>>
     ELSE /\ examined' = examined \cup {idx}
          /\ IF Satisfies(as[idx], Required(cmd, ids))
             THEN /\ selected' = idx
                  /\ pc' = "check"
                  /\ UNCHANGED idx
             ELSE /\ idx' = idx + 1
                  /\ UNCHANGED <<selected, pc>>
  /\ UNCHANGED <<svcVars, gen, cmd, ids, as, i, requests, created,
                 lastStatus, last, prev>>

\* Variant of CheckSelected: the nil check only logs and the command goes on.
CheckSelectedProceeds ==
  /\ pc = "check"
  /\ pc' = "request"
  /\ last' = [Cmd |-> cmd, As |-> as, Req |-> Required(cmd, ids),
              Selected |-> selected]
  /\ UNCHANGED <<svcVars, gen, cmd, ids, scanVars, i, requests, created,
                 lastStatus, prev>>

\* "if writeAuth == nil { ...; log.Fatalf("Giving up.") }"
CheckSelected ==
  /\ pc = "check"
  /\ pc' = IF selected = 0 THEN "fatal" ELSE "request"
  /\ last' = [Cmd |-> cmd, As |-> as, Req |-> Required(cmd, ids),
              Selected |-> selected]
  /\ UNCHANGED <<svcVars, gen, cmd, ids, scanVars, i, requests, created,
                 lastStatus, prev>>

\* The request a command issues with the selected authorization's token.
Request(body) ==
  [Cmd |-> cmd, Token |-> as[selected].Token, Body |-> body]

\* Variant of WriteLoop: a response status other than 204 does not end the loop.
WriteLoopIgnoresStatus ==
  /\ pc = "request"
  /\ cmd = "write"
  /\ i < MaxWrites
  /\ \E st \in {"noreq", "err", "bad", "204"} :
       /\ lastStatus' = st
       /\ requests' = IF st = "noreq" THEN requests
                      ELSE Append(requests, Request(<<"counter n=", i>>))
       /\ IF st \in {"204", "bad"}
          THEN /\ i' = i + 1
               /\ UNCHANGED pc
          ELSE /\ pc' = "fatal"
               /\ UNCHANGED i
  /\ UNCHANGED <<svcVars, gen, cmd, ids, scanVars, created, last, prev>>

\* One iteration of the for loop of write.
WriteLoop ==
  /\ pc = "request"
  /\ cmd = "write"
  /\ i < MaxWrites
  /\ \E st \in {"noreq", "err", "bad", "204"} :
       /\ lastStatus' = st
       /\ requests' = IF st = "noreq" THEN requests
                      ELSE Append(requests, Request(<<"counter n=", i>>))
       /\ IF st = "204"
          THEN /\ i' = i + 1
               /\ UNCHANGED pc
          ELSE /\ pc' = "fatal"
               /\ UNCHANGED i
  /\ UNCHANGED <<svcVars, gen, cmd, ids, scanVars, created, last, prev>>

\* fqs.Query and the csv encoding of readOnce and downsampleOnce.
Query ==
  /\ pc = "request"
  /\ cmd \in QueryCommands
  /\ \E st \in {"err", "encerr", "ok"} :
       /\ lastStatus' = st
       /\ requests' = Append(requests, Request(<<"query", cmd>>))
       /\ pc' = IF st = "ok" THEN "done" ELSE "fatal"
  /\ UNCHANGED <<svcVars, gen, cmd, ids, scanVars, i, created, last, prev>>

\* ts.CreateTask of createTask.
CreateTask ==
  /\ pc = "request"
  /\ cmd = "create-task"
  /\ \E st \in {"err", "ok"} :
       /\ lastStatus' = st
       /\ requests' = Append(requests, Request(<<"task", ids.user>>))
       /\ pc' = IF st = "ok" THEN "done" ELSE "fatal"
  /\ UNCHANGED <<svcVars, gen, cmd, ids, scanVars, i, created, last, prev>>

----------------------------------------------------------------------------
\* bootstrap

\* Variant of BootstrapOrder: the first authorization before the buckets.
BootstrapOrderAuthFirst ==
  <<"user", "org", "auth-write-in", "bucket-in", "bucket-out", "auth-read-in",
    "auth-read-in-write-out-create-task", "auth-read-out">>

\* The order of the Create calls of bootstrap.
BootstrapOrder ==
  <<"user", "org", "bucket-in", "bucket-out", "auth-write-in", "auth-read-in",
    "auth-read-in-write-out-create-task", "auth-read-out">>

\* Variant of BootstrapPermissions: the third authorization lacks the
\* permission to create tasks.
BootstrapPermissionsNoTask(what, l) ==
  CASE what = "auth-write-in" -> <<WriteBucketPermission(l.bIn)>>
    [] what = "auth-read-in" -> <<ReadBucketPermission(l.bIn)>>
    [] what = "auth-read-in-write-out-create-task" ->
         <<ReadBucketPermission(l.bIn), WriteBucketPermission(l.bOut)>>
    [] what = "auth-read-out" -> <<ReadBucketPermission(l.bOut)>>
    [] OTHER -> <<>>

\* The Permissions of the four authorizations bootstrap creates.
BootstrapPermissions(what, l) ==
  CASE what = "auth-write-in" -> <<WriteBucketPermission(l.bIn)>>
    [] what = "auth-read-in" -> <<ReadBucketPermission(l.bIn)>>
    [] what = "auth-read-in-write-out-create-task" ->
         <<ReadBucketPermission(l.bIn), WriteBucketPermission(l.bOut),
           CreateTaskPermission(l.org)>>
    [] what = "auth-read-out" -> <<ReadBucketPermission(l.bOut)>>
    [] OTHER -> <<>>

\* main: dispatch to bootstrap.  The service numbers what this run creates.
StartBootstrap ==
  /\ pc = "idle"
  /\ gen < MaxBootstraps
  /\ gen' = gen + 1
  /\ cmd' = "bootstrap"
  /\ pc' = "bootstrap"
  /\ ResetLocals
  /\ prev' = NoScan
  /\ last' = NoScan
  /\ UNCHANGED svcVars

\* The next Create call of bootstrap; log.Fatalf when it fails.  The service
\* refuses a second user or organization of the same name.
BootstrapStep ==
  /\ pc = "bootstrap"
  /\ LET k == Len(created) + 1
         what == BootstrapOrder[k]
     IN \E ok \in BOOLEAN :
          IF /\ ok
             /\ what = "user" => svcUser = InvalidID
             /\ what = "org" => svcOrg = InvalidID
          THEN /\ created' = Append(created, what)
               /\ pc' = IF k = Len(BootstrapOrder) THEN "done" ELSE "bootstrap"
               /\ CASE what = "user" ->
                         /\ svcUser' = UserID(gen)
                         /\ ids' = [ids EXCEPT !.user = UserID(gen)]
                         /\ UNCHANGED <<svcOrg, svcBuckets, svcAuths>>
                    [] what = "org" ->
                         /\ svcOrg' = OrgID(gen)
                         /\ ids' = [ids EXCEPT !.org = OrgID(gen)]
                         /\ UNCHANGED <<svcUser, svcBuckets, svcAuths>>
                    [] what = "bucket-in" ->
                         /\ svcBuckets' = svcBuckets \cup
                              {[Name |-> bucketInName, Org |-> ids.org,
                                ID |-> BucketID(bucketInName, gen)]}
                         /\ ids' = [ids EXCEPT !.bIn = BucketID(bucketInName, gen)]
                         /\ UNCHANGED <<svcUser, svcOrg, svcAuths>>
                    [] what = "bucket-out" ->
                         /\ svcBuckets' = svcBuckets \cup
                              {[Name |-> bucketOutName, Org |-> ids.org,
                                ID |-> BucketID(bucketOutName, gen)]}
                         /\ ids' = [ids EXCEPT !.bOut = BucketID(bucketOutName, gen)]
                         /\ UNCHANGED <<svcUser, svcOrg, svcAuths>>
                    [] OTHER ->
                         /\ svcAuths' = Append(svcAuths,
                              [Token |-> Token(gen, k), UserID |-> ids.user,
                               Permissions |-> BootstrapPermissions(what, ids)])
                         /\ UNCHANGED <<svcUser, svcOrg, svcBuckets, ids>>
          ELSE /\ pc' = "fatal"
               /\ UNCHANGED <<svcVars, ids, created>>
  /\ UNCHANGED <<gen, cmd, scanVars, i, requests, lastStatus, last, prev>>

----------------------------------------------------------------------------
\* destroy

StartDestroy ==
  /\ pc = "idle"
  /\ cmd' = "destroy"
  /\ pc' = "destroy-user"
  /\ ResetLocals
  /\ prev' = NoScan
  /\ last' = NoScan
  /\ UNCHANGED <<svcVars, gen>>

\* userID then users.DeleteUser; a failure is logged and destroy continues.
\* Whether the service also drops the user's authorizations is the service's
\* choice.
DestroyUser ==
  /\ pc = "destroy-user"
  /\ pc' = "destroy-org"
  /\ \E ok \in BOOLEAN, cascade \in BOOLEAN :
       IF ok /\ svcUser # InvalidID
       THEN /\ svcUser' = InvalidID
            /\ svcAuths' = IF cascade
                           THEN SelectSeq(svcAuths, LAMBDA a : a.UserID # svcUser)
                           ELSE svcAuths
       ELSE UNCHANGED <<svcUser, svcAuths>>
  /\ UNCHANGED <<svcOrg, svcBuckets, gen, cmd, ids, scanVars, i, requests,
                 created, lastStatus, last, prev>>

\* orgID then orgs.DeleteOrganization; a failure is logged and destroy ends.
\* Whether the service also drops the organization's buckets is the service's
\* choice.
DestroyOrg ==
  /\ pc = "destroy-org"
  /\ pc' = "done"
  /\ \E ok \in BOOLEAN, cascade \in BOOLEAN :
       IF ok /\ svcOrg # InvalidID
       THEN /\ svcOrg' = InvalidID
            /\ svcBuckets' = IF cascade
                             THEN {b \in svcBuckets : b.Org # svcOrg}
                             ELSE svcBuckets
       ELSE UNCHANGED <<svcOrg, svcBuckets>>
  /\ UNCHANGED <<svcUser, svcAuths, gen, cmd, ids, scanVars, i, requests,
                 created, lastStatus, last, prev>>

----------------------------------------------------------------------------
\* Initial states and specifications

\* The permissions an authorization of the first user may hold.
Universe ==
  <<WriteBucketPermission(BucketID(bucketInName, 1)),
    ReadBucketPermission(BucketID(bucketInName, 1)),
    ReadBucketPermission(BucketID(bucketOutName, 1)),
    WriteBucketPermission(BucketID(bucketOutName, 1)),
    CreateTaskPermission(OrgID(1))>>

RECURSIVE Pick(_, _)
Pick(S, k) ==
  IF k > Len(Universe) THEN <<>>
  ELSE (IF k \in S THEN <<Universe[k]>> ELSE <<>>) \o Pick(S, k + 1)

PermLists ==
  { Pick(S, 1) : S \in { T \in SUBSET (1..Len(Universe)) : Cardinality(T) <= MaxPerms } }

\* The list of n authorizations whose permission lists are f[1], ..., f[n].
AuthList(n, f) ==
  [k \in 1..n |-> [Token |-> Token(0, k), UserID |-> UserID(1),
                   Permissions |-> f[k]]]

InitLocals ==
  /\ cmd = "none"
  /\ pc = "idle"
  /\ ids = NoIDs
  /\ as = <<>>
  /\ idx = 1
  /\ selected = 0
  /\ examined = {}
  /\ i = 0
  /\ requests = <<>>
  /\ created = <<>>
  /\ lastStatus = "none"
  /\ last = NoScan
  /\ prev = NoScan

\* A provisioned namespace whose user holds any list of authorizations; one
\* command runs against it.
Init ==
  /\ svcUser = UserID(1)
  /\ svcOrg = OrgID(1)
  /\ svcBuckets = {[Name |-> bucketInName, Org |-> OrgID(1),
                    ID |-> BucketID(bucketInName, 1)],
                   [Name |-> bucketOutName, Org |-> OrgID(1),
                    ID |-> BucketID(bucketOutName, 1)]}
  /\ \E n \in 0..MaxAuths : \E f \in [1..n -> PermLists] :
       svcAuths = AuthList(n, f)
  /\ gen = 1
  /\ InitLocals

Next ==
  \/ \E c \in ScanCommands : Start(c)
  \/ Resolve
  \/ FindAuthorizations(FALSE)
  \/ ScanStep
  \/ CheckSelected
  \/ WriteLoop
  \/ Query
  \/ CreateTask

Spec == Init /\ [][Next]_vars

\* An empty service: everything in the namespace comes from bootstrap; the
\* commands run one after another.
InitLife ==
  /\ svcUser = InvalidID
  /\ svcOrg = InvalidID
  /\ svcBuckets = {}
  /\ svcAuths = <<>>
  /\ gen = 0
  /\ InitLocals

NextLife ==
  \/ StartBootstrap
  \/ BootstrapStep
  \/ StartDestroy
  \/ DestroyUser
  \/ DestroyOrg
  \/ \E c \in ScanCommands : Start(c)
  \/ Resolve
  \/ FindAuthorizations(TRUE)
  \/ ScanStep
  \/ CheckSelected
  \/ WriteLoop
  \/ Query
  \/ CreateTask
  \/ Exit

SpecLife == InitLife /\ [][NextLife]_vars

----------------------------------------------------------------------------
\* Properties of the selection loops

\* The running command's loop over as has ended (by break or by exhaustion).
ScanDone ==
  /\ cmd \in ScanCommands
  /\ pc = "check" \/ last # NoScan

\* C1: when some authorization of as satisfies every required permission, the
\* loop selects the satisfying entry of lowest index: the selected entry
\* satisfies the requirement, no earlier entry does, and exactly the entries
\* up to the selected one were examined (none after it).
C1_FirstMatch ==
  (ScanDone /\ \E k \in 1..Len(as) : Satisfies(as[k], Required(cmd, ids)))
    => /\ selected \in 1..Len(as)
       /\ Satisfies(as[selected], Required(cmd, ids))
       /\ \A j \in 1..(selected - 1) : ~Satisfies(as[j], Required(cmd, ids))
       /\ examined = 1..selected

\* Two entries satisfy the requirement; the first is selected and the second
\* was not examined.
C1_Witness ==
  /\ ScanDone
  /\ Len(as) = 2
  /\ Satisfies(as[1], Required(cmd, ids))
  /\ Satisfies(as[2], Required(cmd, ids))
  /\ selected = 1
  /\ 2 \notin examined

\* C2: when no authorization of as satisfies every required permission (the
\* empty list included), the selected authorization stays nil at every point
\* of the command.
C2_NotFound ==
  (cmd \in ScanCommands
     /\ ~\E k \in 1..Len(as) : Satisfies(as[k], Required(cmd, ids)))
    => selected = 0

\* The loop ran over an empty list and ended with nil.
C2_Witness ==
  /\ ScanDone
  /\ last # NoScan
  /\ as = <<>>
  /\ Required(cmd, ids) # <<>>
  /\ selected = 0

\* C3: downsample-once selects only an authorization that allows both reading
\* the input bucket and writing the output bucket, and create-task only one
\* that also allows creating tasks in the organization; an entry that allows
\* some but not all of them is never the selected one.
C3_AllRequired ==
  (selected # 0 /\ cmd \in {"downsample-once", "create-task"})
    => /\ Allowed(as[selected], ReadBucketPermission(ids.bIn))
       /\ Allowed(as[selected], WriteBucketPermission(ids.bOut))
       /\ cmd = "create-task"
            => Allowed(as[selected], CreateTaskPermission(ids.org))

\* create-task skipped a first entry that allows reading and writing but not
\* creating tasks, and selected the second.
C3_Witness ==
  /\ cmd = "create-task"
  /\ ScanDone
  /\ selected = 2
  /\ Allowed(as[1], ReadBucketPermission(ids.bIn))
  /\ Allowed(as[1], WriteBucketPermission(ids.bOut))
  /\ ~Allowed(as[1], CreateTaskPermission(ids.org))

\* C4: the scan leaves the list of authorizations (permission lists included)
\* and the service's authorizations unchanged, and a second run of the same
\* command over an identical list with identical required permissions selects
\* the same entry, or nil again.
C4_ReadOnly ==
  /\ [][(pc \in {"scan", "check"}) => (as' = as /\ svcAuths' = svcAuths)]_vars
  /\ []((last # NoScan /\ prev # NoScan
           /\ prev.As = last.As /\ prev.Req = last.Req)
          => prev.Selected = last.Selected)

\* The same command ran twice over the same four-entry list and selected the
\* third entry both times.
C4_Witness ==
  /\ last # NoScan
  /\ prev # NoScan
  /\ prev.As = last.As
  /\ prev.Req = last.Req
  /\ Len(last.As) = 4
  /\ last.Selected = 3
  /\ as = last.As

\* C5: a command whose scan found nothing never gets past the nil check: it
\* ends in log.Fatalf with no request issued; and every request issued carries
\* the token of an entry of as that satisfies all required permissions.
C5_Surfaced ==
  cmd \in ScanCommands
    => /\ selected = 0
            => /\ requests = <<>>
               /\ pc \in {"resolve", "find", "scan", "check", "fatal"}
       /\ \A r \in 1..Len(requests) :
            /\ requests[r].Cmd = cmd
            /\ \E k \in 1..Len(as) :
                 /\ as[k].Token = requests[r].Token
                 /\ Satisfies(as[k], Required(cmd, ids))

\* read-out found no authorization in a non-empty list and gave up without a
\* query.
C5_Witness ==
  /\ cmd = "read-out"
  /\ pc = "fatal"
  /\ last # NoScan
  /\ Len(as) >= 1
  /\ selected = 0
  /\ requests = <<>>

\* C7: write sends bodies "counter n=0", "counter n=1", ... in order without
\* gap or repeat, all with the selected authorization's token; it goes on
\* while every response is 204, it never ends normally, and it ends only at
\* the first failed request, after which nothing more is sent.
C7_WriteForever ==
  /\ [](cmd = "write"
          => /\ \A k \in 1..Len(requests) :
                  /\ requests[k].Body = <<"counter n=", k - 1>>
                  /\ requests[k].Token = as[selected].Token
             /\ pc # "done"
             /\ pc = "request"
                  => /\ lastStatus \in {"none", "204"}
                     /\ Len(requests) = i
             /\ (pc = "fatal" /\ selected # 0)
                  => /\ lastStatus \in {"noreq", "err", "bad"}
                     /\ Len(requests) = IF lastStatus = "noreq" THEN i ELSE i + 1)
  /\ [][(cmd = "write" /\ pc = "fatal") => Len(requests') <= Len(requests)]_vars

\* Two writes were answered 204 and the third was answered with another
\* status, which ended the command.
C7_Witness ==
  /\ cmd = "write"
  /\ pc = "fatal"
  /\ lastStatus = "bad"
  /\ i = 2
  /\ Len(requests) = 3

----------------------------------------------------------------------------
\* Properties of bootstrap

\* as holds exactly the four authorizations the latest bootstrap created.
FourFromBootstrap ==
  /\ Len(as) = 4
  /\ {as[k].Token : k \in 1..Len(as)} = {Token(gen, k) : k \in 5..8}

\* C8: when the service returns exactly the four authorizations of the
\* bootstrap, in any order, every selecting command finds an authorization,
\* and downsample-once and create-task select the one with three permissions.
C8_BootstrapSuffices ==
  (ScanDone /\ FourFromBootstrap)
    => /\ selected # 0
       /\ cmd \in {"downsample-once", "create-task"}
            => /\ as[selected].Token = Token(gen, 7)
               /\ Len(as[selected].Permissions) = 3

\* create-task found the three-permission authorization at the end of the list.
C8_Witness ==
  /\ cmd = "create-task"
  /\ pc = "done"
  /\ FourFromBootstrap
  /\ selected = 4
  /\ as[4].Token = Token(gen, 7)

\* The creations of bootstrap, in the order of the claim.
C9_Order ==
  <<"user", "org", "bucket-in", "bucket-out", "auth-write-in", "auth-read-in",
    "auth-read-in-write-out-create-task", "auth-read-out">>

\* C9: bootstrap creates user, organization, input bucket, output bucket and
\* the four authorizations in that order; every authorization it has created
\* belongs to the created user and refers only to created buckets and the
\* created organization; after a failed creation nothing more is created, and
\* bootstrap never removes what it created.
C9_BootstrapOrder ==
  /\ [](cmd = "bootstrap"
          => /\ Len(created) <= Len(C9_Order)
             /\ \A k \in 1..Len(created) : created[k] = C9_Order[k]
             /\ pc = "done" <=> Len(created) = Len(C9_Order)
             /\ (Len(created) >= 1) <=> (svcUser = UserID(gen))
             /\ (Len(created) >= 2) <=> (svcOrg = OrgID(gen))
             /\ \A b \in svcBuckets :
                  b.ID[2] = gen
                    => /\ b.Org = svcOrg
                       /\ b.Name = bucketInName => Len(created) >= 3
                       /\ b.Name = bucketOutName => Len(created) >= 4
             /\ Len(created) >= 3
                  => \E b \in svcBuckets : b.ID = BucketID(bucketInName, gen)
             /\ Len(created) >= 4
                  => \E b \in svcBuckets : b.ID = BucketID(bucketOutName, gen)
             /\ Len(SelectSeq(svcAuths, LAMBDA a : a.Token[2] = gen))
                  = IF Len(created) >= 4 THEN Len(created) - 4 ELSE 0
             /\ \A n \in 1..Len(svcAuths) :
                  svcAuths[n].Token[2] = gen
                    => /\ svcAuths[n].UserID = svcUser
                       /\ svcUser # InvalidID
                       /\ \A m \in 1..Len(svcAuths[n].Permissions) :
                            LET res == svcAuths[n].Permissions[m].Resource
                            IN IF res[1] = "bucket"
                               THEN \E b \in svcBuckets :
                                      b.ID = res[2] /\ b.Org = svcOrg
                               ELSE res[2] = svcOrg /\ svcOrg # InvalidID)
  /\ [][(cmd = "bootstrap" /\ pc = "fatal") => UNCHANGED svcVars]_vars
  /\ [][(cmd = "bootstrap")
          => /\ svcUser # InvalidID => svcUser' = svcUser
             /\ svcOrg # InvalidID => svcOrg' = svcOrg
             /\ svcBuckets \subseteq svcBuckets'
             /\ Len(svcAuths') >= Len(svcAuths)
             /\ SubSeq(svcAuths', 1, Len(svcAuths)) = svcAuths]_vars

\* The sixth creation failed: the five earlier creations are still there.
C9_Witness ==
  /\ cmd = "bootstrap"
  /\ pc = "fatal"
  /\ Len(created) = 5
  /\ Len(svcAuths) = 1
  /\ Cardinality(svcBuckets) = 2

====
